---- MODULE Spec2Model ----
(***************************************************************************)
(* A model of lcdprocjs.js: the LCDproc client (handshake, capabilities,   *)
(* inbound dispatch), its Screen registry and its Widget hierarchy.        *)
(*                                                                         *)
(* JavaScript strings are TLA+ strings; Len, \o and SubSeq act on them by  *)
(* character.  A JavaScript value that may be a number, a string,          *)
(* undefined or NaN is a record [t, n, s] (see Num, Str, Undef, NaN), so   *)
(* that values of different JavaScript types can be compared.              *)
(***************************************************************************)
EXTENDS Integers, Sequences, FiniteSets, TLC

VARIABLES
    sock,           \* this.socket: "new", "connecting", "ending" (ended while
                    \* connecting), "open", "ended", "destroyed"
    lcdprocConfig,  \* this.lcdprocConfig
    screens,        \* this.screens: the own properties [id, obj], obj an index into screenObjs
    screenCnt,      \* this.screenCnt
    screenObjs,     \* every Screen object ever constructed, in construction order
    widgetObjs,     \* every Widget object ever constructed, in construction order
    trace,          \* socket.write calls and emitted events, in program order
    last,           \* the last operation: its name, inputs, result and own trace
    uncaught,       \* number of exceptions thrown out of a socket listener (the
                    \* objects stay as the listener left them)
    nData,          \* number of "data" events delivered so far
    nCalls          \* number of API calls made so far

vars == <<sock, lcdprocConfig, screens, screenCnt, screenObjs, widgetObjs,
          trace, last, uncaught, nData, nCalls>>

----------------------------------------------------------------------------
(* Bounds of the model. *)

\* "data" events in the handshake specification
MaxData == 3

\* "data" events in the dispatch specification
MaxChunks == 1

\* Screen calls in the dispatch specification
MaxCalls == 3

\* Screens in the widget specifications
MaxScreens == 2

\* Calls other than addScreen in the widget specifications
MaxWidgetCalls == 3

\* String widgets, and calls of their setters, in the string specification
MaxStrings == 1

MaxSets == 3

----------------------------------------------------------------------------
(* JavaScript values. *)

Num(n) == [t |-> "num", n |-> n, s |-> ""]

Str(s) == [t |-> "str", n |-> 0, s |-> s]

Undef == [t |-> "undef", n |-> 0, s |-> ""]

NaN == [t |-> "nan", n |-> 0, s |-> ""]

\* String(v), as Array.prototype.join and string concatenation convert a value.
\* (join itself turns undefined into the empty string: see Join.)
ToText(v) ==
    CASE v.t = "num" -> ToString(v.n)
      [] v.t = "str" -> v.s
      [] v.t = "undef" -> "undefined"
      [] v.t = "nan" -> "NaN"

----------------------------------------------------------------------------
(* JavaScript string functions, by character. *)

Min(a, b) == IF a < b THEN a ELSE b

Char(s, i) == SubSeq(s, i, i)

WhiteSpace == {" ", "\n", "\r", "\t"}

Digits == {"0", "1", "2", "3", "4", "5", "6", "7", "8", "9"}

DigitVal(c) ==
    CASE c = "0" -> 0 [] c = "1" -> 1 [] c = "2" -> 2 [] c = "3" -> 3
      [] c = "4" -> 4 [] c = "5" -> 5 [] c = "6" -> 6 [] c = "7" -> 7
      [] c = "8" -> 8 [] c = "9" -> 9

RECURSIVE TrimStart(_)
TrimStart(s) ==
    IF s # "" /\ Char(s, 1) \in WhiteSpace THEN TrimStart(SubSeq(s, 2, Len(s))) ELSE s

RECURSIVE TrimEnd(_)
TrimEnd(s) ==
    IF s # "" /\ Char(s, Len(s)) \in WhiteSpace
    THEN TrimEnd(SubSeq(s, 1, Len(s) - 1)) ELSE s

\* String.prototype.trim
Trim(s) == TrimEnd(TrimStart(s))

\* s.indexOf(p) == 0
StartsWith(s, p) == Len(s) >= Len(p) /\ SubSeq(s, 1, Len(p)) = p

\* s.substring(from, to) with 0 <= from <= to (0-based, to exclusive)
Substring(s, from, to) ==
    IF from >= Len(s) THEN "" ELSE SubSeq(s, from + 1, Min(to, Len(s)))

\* s.substring(from)
SubstringFrom(s, from) == Substring(s, from, Len(s))

RECURSIVE SplitFrom(_, _, _, _)
SplitFrom(s, sep, start, i) ==
    IF i > Len(s) THEN <<SubSeq(s, start, Len(s))>>
    ELSE IF Char(s, i) = sep
         THEN <<SubSeq(s, start, i - 1)>> \o SplitFrom(s, sep, i + 1, i + 1)
         ELSE SplitFrom(s, sep, start, i + 1)

\* s.split(sep) for a one-character separator
Split(s, sep) == SplitFrom(s, sep, 1, 1)

RECURSIVE DigitsValue(_, _)
DigitsValue(s, acc) ==
    IF s = "" THEN acc
    ELSE DigitsValue(SubSeq(s, 2, Len(s)), 10 * acc + DigitVal(Char(s, 1)))

\* Unary plus (+v): a string of decimal digits is its number, the empty
\* string is 0, undefined and every other string of the model's inputs is NaN.
ToNumber(v) ==
    CASE v.t = "num" -> v
      [] v.t = "undef" -> NaN
      [] v.t = "nan" -> NaN
      [] v.t = "str" ->
            IF \A i \in 1..Len(v.s) : Char(v.s, i) \in Digits
            THEN Num(DigitsValue(v.s, 0))
            ELSE NaN

RECURSIVE Join(_, _)
\* Array.prototype.join(sep) on an array of strings
Join(out, sep) ==
    IF out = <<>> THEN ""
    ELSE IF Len(out) = 1 THEN out[1]
    ELSE out[1] \o sep \o Join(Tail(out), sep)

\* quoteString(str)
quoteString(str) == "{" \o str \o "}"

----------------------------------------------------------------------------
(* The program's trace: what it hands to socket.write and what it emits.   *)
(* A line is "written" when socket.write is called with it: _write does    *)
(* not look at the socket's state, and what the socket does with a line    *)
(* handed to it before it connected or after it ended is not in the trace. *)

Written(text) == [kind |-> "write", text |-> text, on |-> 0]

\* on = 0 is the Client, on = h > 0 the Screen object screenObjs[h]
Emitted(ev, h) == [kind |-> "emit", text |-> ev, on |-> h]

IsWrite(e) == e.kind = "write"

IsEmit(e) == e.kind = "emit"

\* The lines handed to socket.write, in order
wire == SelectSeq(trace, IsWrite)

\* The events emitted, in order
events == SelectSeq(trace, IsEmit)

RECURSIVE Flatten(_)
Flatten(args) ==
    IF args = <<>> THEN <<>> ELSE Head(args) \o Flatten(Tail(args))

\* Client.prototype._write: args is the arguments list, each argument an array
\* of strings (a scalar argument is given as a one-element array).  The result
\* is the trace of the call: one socket.write of the joined line.
ClientWrite(args) == <<Written(Join(Flatten(args), " ") \o "\n")>>

----------------------------------------------------------------------------
(* Plain objects used as maps (this.screens, screen.widgets): the set of   *)
(* their own properties [id, obj].                                         *)

\* Properties every object literal inherits from Object.prototype
ObjectPrototypeKeys ==
    {"constructor", "toString", "toLocaleString", "valueOf", "hasOwnProperty",
     "isPrototypeOf", "propertyIsEnumerable", "__proto__"}

HasOwn(map, id) == \E e \in map : e.id = id

\* map[id]: an own property, an inherited one, or undefined
Lookup(map, id) ==
    IF HasOwn(map, id)
    THEN [found |-> "own", obj |-> (CHOOSE e \in map : e.id = id).obj]
    ELSE IF id \in ObjectPrototypeKeys
         THEN [found |-> "inherited", obj |-> 0]
         ELSE [found |-> "undefined", obj |-> 0]

\* map[id] = obj
Assign(map, id, obj) == {e \in map : e.id # id} \cup {[id |-> id, obj |-> obj]}

\* delete map[id]
Delete(map, id) == {e \in map : e.id # id}

----------------------------------------------------------------------------
(* Client *)

\* config.name
Name == "lcd"

InitConfig ==
    [version |-> Num(0), protocol |-> Num(0),
     size |-> [width |-> Num(0), height |-> Num(0)],
     cellsize |-> [width |-> Num(0), height |-> Num(0)]]

\* The record of one operation: its name, its arguments, the object it was
\* called on, the object it returned, its own trace, whether it threw.
Op(op, args, h, ret, out, threw) ==
    [op |-> op, args |-> args, h |-> h, ret |-> ret, out |-> out, threw |-> threw]

NoOp == Op("none", <<>>, 0, 0, <<>>, FALSE)

Init ==
    /\ sock = "new"
    /\ lcdprocConfig = InitConfig
    /\ screens = {}
    /\ screenCnt = 0
    /\ screenObjs = <<>>
    /\ widgetObjs = <<>>
    /\ trace = <<>>
    /\ last = NoOp
    /\ uncaught = 0
    /\ nData = 0
    /\ nCalls = 0

\* params[i+1] of the connect line (params is 1-based here)
ParamAt(params, i) == IF i <= Len(params) THEN Str(params[i]) ELSE Undef

\* The switch of the connect-line parser, for the token at index i
ParseToken(cfg, params, i) ==
    LET value == params[i]
        next == ParamAt(params, i + 1)
    IN  CASE value = "LCDproc" -> [cfg EXCEPT !.version = next]
          [] value = "protocol" -> [cfg EXCEPT !.protocol = next]
          [] value = "wid" -> [cfg EXCEPT !.size.width = ToNumber(next)]
          [] value = "hgt" -> [cfg EXCEPT !.size.height = ToNumber(next)]
          [] value = "cellwid" -> [cfg EXCEPT !.cellsize.width = ToNumber(next)]
          [] value = "cellhgt" -> [cfg EXCEPT !.cellsize.height = ToNumber(next)]
          [] OTHER -> cfg

RECURSIVE ParseFrom(_, _, _)
ParseFrom(cfg, params, i) ==
    IF i > Len(params) THEN cfg
    ELSE ParseFrom(ParseToken(cfg, params, i), params, i + 1)

\* params.forEach(...) of the connect branch
ParseConnect(cfg, data) == ParseFrom(cfg, Split(data, " "), 1)

\* ConnectReply with ready emitted before client_set is written
ConnectReplyEmitFirst ==
    <<Emitted("ready", 0)>>
        \o ClientWrite(<<<<"client_set">>, <<"-name">>, <<quoteString(Name)>>>>)

\* The connect branch after parsing: client_set is written, then ready emitted
ConnectReply ==
    ClientWrite(<<<<"client_set">>, <<"-name">>, <<quoteString(Name)>>>>)
        \o <<Emitted("ready", 0)>>

\* The body of the forEach over the lines of a chunk, for one line: the events
\* it emits, and whether it throws (calling emit on an inherited property)
DispatchLine(msg) ==
    LET m == Substring(msg, 0, 6)
        scr == Lookup(screens, SubstringFrom(msg, 7))
        ev == IF m = "listen" THEN "shown" ELSE "hidden"
    IN  IF msg = "success" \/ m \notin {"listen", "ignore"} \/ scr.found = "undefined"
        THEN [out |-> <<>>, threw |-> FALSE]
        ELSE IF scr.found = "own"
             THEN [out |-> <<Emitted(ev, scr.obj)>>, threw |-> FALSE]
             ELSE [out |-> <<>>, threw |-> TRUE]

RECURSIVE DispatchFrom(_, _)
\* data.split("\n").forEach(...): an exception ends the loop
DispatchFrom(lines, i) ==
    IF i > Len(lines) THEN [out |-> <<>>, threw |-> FALSE]
    ELSE LET r == DispatchLine(lines[i])
         IN  IF r.threw THEN r
             ELSE LET rest == DispatchFrom(lines, i + 1)
                  IN  [out |-> r.out \o rest.out, threw |-> rest.threw]

\* The "data" listener
OnData(buf) ==
    LET data == Trim(buf)
    IN  IF StartsWith(data, "connect")
        THEN [cfg |-> ParseConnect(lcdprocConfig, data), out |-> ConnectReply,
              threw |-> FALSE]
        ELSE LET r == DispatchFrom(Split(data, "\n"), 1)
             IN  [cfg |-> lcdprocConfig, out |-> r.out, threw |-> r.threw]

\* The "connect" listener
OnConnect == ClientWrite(<<<<"hello">>>>)

\* Client.prototype.connect: the listeners are registered and the socket is
\* asked to connect.  It is called on the socket the constructor made.
Connect ==
    /\ sock = "new"
    /\ sock' = "connecting"
    /\ last' = Op("connect", <<>>, 0, 0, <<>>, FALSE)
    /\ UNCHANGED <<lcdprocConfig, screens, screenCnt, screenObjs, widgetObjs,
                   trace, uncaught, nData, nCalls>>

\* The socket's "connect" event; a socket ended while it was connecting
\* still connects, and is ended then
SocketConnect ==
    /\ sock \in {"connecting", "ending"}
    /\ sock' = (IF sock = "connecting" THEN "open" ELSE "ended")
    /\ trace' = trace \o OnConnect
    /\ last' = Op("on_connect", <<>>, 0, 0, OnConnect, FALSE)
    /\ UNCHANGED <<lcdprocConfig, screens, screenCnt, screenObjs, widgetObjs,
                   uncaught, nData, nCalls>>

\* The socket's "data" event with chunk buf; the readable side stays open
\* after socket.end() until the server closes it
SocketData(buf) ==
    /\ sock \in {"open", "ended"}
    /\ LET r == OnData(buf)
       IN  /\ lcdprocConfig' = r.cfg
           /\ trace' = trace \o r.out
           /\ uncaught' = uncaught + (IF r.threw THEN 1 ELSE 0)
           /\ last' = Op("on_data", <<Str(buf)>>, 0, 0, r.out, r.threw)
    /\ nData' = nData + 1
    /\ UNCHANGED <<sock, screens, screenCnt, screenObjs, widgetObjs, nCalls>>

\* The socket's "error" event: the listener destroys the socket
SocketError ==
    /\ sock \in {"connecting", "ending", "open", "ended"}
    /\ sock' = "destroyed"
    /\ last' = Op("on_error", <<>>, 0, 0, <<>>, FALSE)
    /\ UNCHANGED <<lcdprocConfig, screens, screenCnt, screenObjs, widgetObjs,
                   trace, uncaught, nData, nCalls>>

\* close() that also empties the registry of screens
CloseDraining ==
    /\ sock' = (CASE sock = "connecting" -> "ending"
                  [] sock = "open" -> "ended"
                  [] OTHER -> sock)
    /\ screens' = {}
    /\ last' = Op("close", <<>>, 0, 0, <<>>, FALSE)
    /\ UNCHANGED <<lcdprocConfig, screenCnt, screenObjs, widgetObjs,
                   trace, uncaught, nData, nCalls>>

\* Client.prototype.close: socket.end()
Close ==
    /\ sock' = (CASE sock = "connecting" -> "ending"
                  [] sock = "open" -> "ended"
                  [] OTHER -> sock)
    /\ last' = Op("close", <<>>, 0, 0, <<>>, FALSE)
    /\ UNCHANGED <<lcdprocConfig, screens, screenCnt, screenObjs, widgetObjs,
                   trace, uncaught, nData, nCalls>>

----------------------------------------------------------------------------
(* Screen *)

\* flattenObj(obj) with dashes: obj is the sequence of its <<key, value>>
\* pairs in insertion order
RECURSIVE flattenObj(_)
flattenObj(obj) ==
    IF obj = <<>> THEN <<>>
    ELSE <<"-" \o Head(obj)[1], Head(obj)[2]>> \o flattenObj(Tail(obj))

HasKey(obj, k) == \E i \in 1..Len(obj) : obj[i][1] = k

\* target[k] = v: an existing key keeps its place, a new key goes last
SetKey(obj, k, v) ==
    IF HasKey(obj, k)
    THEN [i \in 1..Len(obj) |-> IF obj[i][1] = k THEN <<k, v>> ELSE obj[i]]
    ELSE Append(obj, <<k, v>>)

RECURSIVE ObjAssign(_, _)
\* _.assign(target, source)
ObjAssign(target, source) ==
    IF source = <<>> THEN target
    ELSE ObjAssign(SetKey(target, Head(source)[1], Head(source)[2]), Tail(source))

\* newScreenId numbering by the size of the registry instead of the counter
newScreenIdByRegistry == Name \o "_s" \o ToString(Cardinality(screens))

\* Client.prototype._newScreenId (the counter is incremented by the caller)
newScreenId == Name \o "_s" \o ToString(screenCnt)

\* setConfig writing the whole stored configuration after the merge
setConfigWritingStored(scr, config) ==
    IF config = <<>>
    THEN [scr |-> scr, out |-> <<>>]
    ELSE [scr |-> [scr EXCEPT !.config = ObjAssign(scr.config, config)],
          out |-> ClientWrite(<<<<"screen_set">>, <<scr.screenId>>,
                                flattenObj(ObjAssign(scr.config, config))>>)]

\* setConfig without the test for an empty configuration
setConfigNoEmptyTest(scr, config) ==
    [scr |-> [scr EXCEPT !.config = ObjAssign(scr.config, config)],
     out |-> ClientWrite(<<<<"screen_set">>, <<scr.screenId>>, flattenObj(config)>>)]

\* Screen.prototype.setConfig on a Screen record scr: the record afterwards
\* and the trace of the call
setConfig(scr, config) ==
    IF config = <<>>
    THEN [scr |-> scr, out |-> <<>>]
    ELSE [scr |-> [scr EXCEPT !.config = ObjAssign(scr.config, config)],
          out |-> ClientWrite(<<<<"screen_set">>, <<scr.screenId>>, flattenObj(config)>>)]

\* NewScreen applying the configuration before screen_add is written
NewScreenConfigFirst(screenId, config) ==
    LET fresh == [screenId |-> screenId, config |-> <<>>, widgets |-> {},
                  widgetCnt |-> 0]
        set == setConfig(fresh, config)
    IN  [scr |-> set.scr,
         out |-> set.out \o ClientWrite(<<<<"screen_add">>, <<screenId>>>>)]

\* function Screen(client, screenId, config)
NewScreen(screenId, config) ==
    LET fresh == [screenId |-> screenId, config |-> <<>>, widgets |-> {},
                  widgetCnt |-> 0]
        set == setConfig(fresh, config)
    IN  [scr |-> set.scr,
         out |-> ClientWrite(<<<<"screen_add">>, <<screenId>>>>) \o set.out]

\* The arguments of a call that takes a config object, as values
ConfigArgs(config) == [i \in 1..Len(config) |-> Str(config[i][1] \o "=" \o config[i][2])]

\* Client.prototype.addScreen
AddScreen(config) ==
    /\ LET id == newScreenId
           new == NewScreen(id, config)
           h == Len(screenObjs) + 1
       IN  /\ screenCnt' = screenCnt + 1
           /\ screenObjs' = Append(screenObjs, new.scr)
           /\ screens' = Assign(screens, id, h)
           /\ trace' = trace \o new.out
           /\ last' = Op("addScreen", ConfigArgs(config), 0, h, new.out, FALSE)
    /\ nCalls' = nCalls + 1
    /\ UNCHANGED <<sock, lcdprocConfig, widgetObjs, uncaught, nData>>

\* unrefScreen leaving the registry as it is
unrefScreenKeep(id) == screens

\* Client.prototype._unrefScreen
unrefScreen(id) == Delete(screens, id)

\* Screen.prototype.delete, on any Screen object the caller holds
ScreenDelete(h) ==
    /\ h \in 1..Len(screenObjs)
    /\ LET out == ClientWrite(<<<<"screen_del">>, <<screenObjs[h].screenId>>>>)
       IN  /\ trace' = trace \o out
           /\ last' = Op("screen.delete", <<>>, h, 0, out, FALSE)
    /\ screens' = unrefScreen(screenObjs[h].screenId)
    /\ nCalls' = nCalls + 1
    /\ UNCHANGED <<sock, lcdprocConfig, screenCnt, screenObjs, widgetObjs,
                   uncaught, nData>>

\* Screen.prototype.setConfig, on any Screen object the caller holds
ScreenSetConfig(h, config) ==
    /\ h \in 1..Len(screenObjs)
    /\ LET set == setConfig(screenObjs[h], config)
       IN  /\ screenObjs' = [screenObjs EXCEPT ![h] = set.scr]
           /\ trace' = trace \o set.out
           /\ last' = Op("screen.setConfig", ConfigArgs(config), h, 0, set.out, FALSE)
    /\ nCalls' = nCalls + 1
    /\ UNCHANGED <<sock, lcdprocConfig, screens, screenCnt, widgetObjs,
                   uncaught, nData>>

----------------------------------------------------------------------------
(* Widgets *)

\* newWidgetId numbering by the size of the registry instead of the counter
newWidgetIdByRegistry(h) ==
    screenObjs[h].screenId \o "_w" \o ToString(Cardinality(screenObjs[h].widgets))

\* Screen.prototype._newWidgetId of Screen object h (the counter is
\* incremented by the caller)
newWidgetId(h) == screenObjs[h].screenId \o "_w" \o ToString(screenObjs[h].widgetCnt)

\* The id Screen.prototype.addTitle uses
titleId(h) == screenObjs[h].screenId \o "_wTITLE"

NoParams == [def |-> FALSE, v |-> <<>>]

\* function Widget(screen, widgetId, widgetType), called by the constructor
\* of class cls: the object and the trace of the construction
NewWidget(h, widgetId, widgetType, cls) ==
    [obj |-> [screen |-> h, widgetId |-> widgetId, widgetType |-> widgetType,
              cls |-> cls, params |-> NoParams],
     out |-> ClientWrite(<<<<"widget_add">>, <<screenObjs[h].screenId>>,
                           <<widgetId>>, <<widgetType>>>>)]

\* The body shared by addWidget, addString, addHorizontalBar, addVerticalBar,
\* addIcon and addBigNumber: a new id, a new widget, registered under the id
Factory(op, h, widgetType, cls) ==
    /\ h \in 1..Len(screenObjs)
    /\ LET id == newWidgetId(h)
           new == NewWidget(h, id, widgetType, cls)
           w == Len(widgetObjs) + 1
       IN  /\ widgetObjs' = Append(widgetObjs, new.obj)
           /\ screenObjs' = [screenObjs EXCEPT
                                ![h].widgetCnt = @ + 1,
                                ![h].widgets = Assign(@, id, w)]
           /\ trace' = trace \o new.out
           /\ last' = Op(op, <<Str(widgetType)>>, h, w, new.out, FALSE)
    /\ nCalls' = nCalls + 1
    /\ UNCHANGED <<sock, lcdprocConfig, screens, screenCnt, uncaught, nData>>

\* Screen.prototype.addWidget
AddWidget(h, type) == Factory("addWidget", h, type, "Widget")

\* Screen.prototype.addString
AddString(h) == Factory("addString", h, "string", "StringWidget")

\* Screen.prototype.addHorizontalBar
AddHorizontalBar(h) == Factory("addHorizontalBar", h, "hbar", "HorizontalBarWidget")

\* Screen.prototype.addVerticalBar
AddVerticalBar(h) == Factory("addVerticalBar", h, "vbar", "VerticalBarWidget")

\* Screen.prototype.addIcon
AddIcon(h) == Factory("addIcon", h, "icon", "IconWidget")

\* Screen.prototype.addBigNumber
AddBigNumber(h) == Factory("addBigNumber", h, "num", "BigNumberWidget")

\* TitleMissing without the look-up: addTitle always constructs
TitleAlwaysMissing(h) == TRUE

\* Whether addTitle finds no widget under the title id of Screen object h
TitleMissing(h) == Lookup(screenObjs[h].widgets, titleId(h)).found = "undefined"

\* Screen.prototype.addTitle
AddTitle(h) ==
    /\ h \in 1..Len(screenObjs)
    /\ IF TitleMissing(h)
       THEN LET new == NewWidget(h, titleId(h), "title", "TitleWidget")
                w == Len(widgetObjs) + 1
            IN  /\ widgetObjs' = Append(widgetObjs, new.obj)
                /\ screenObjs' = [screenObjs EXCEPT
                                     ![h].widgets = Assign(@, titleId(h), w)]
                /\ trace' = trace \o new.out
                /\ last' = Op("addTitle", <<>>, h, w, new.out, FALSE)
       ELSE /\ last' = Op("addTitle", <<>>, h,
                          Lookup(screenObjs[h].widgets, titleId(h)).obj, <<>>, FALSE)
            /\ UNCHANGED <<widgetObjs, screenObjs, trace>>
    /\ nCalls' = nCalls + 1
    /\ UNCHANGED <<sock, lcdprocConfig, screens, screenCnt, uncaught, nData>>

\* Screen.prototype._unrefWidget on a widgets map
unrefWidget(widgets, id) == Delete(widgets, id)

\* Widget.prototype.delete, on any Widget object the caller holds
WidgetDelete(w) ==
    /\ w \in 1..Len(widgetObjs)
    /\ LET h == widgetObjs[w].screen
           id == widgetObjs[w].widgetId
           out == ClientWrite(<<<<"widget_del">>, <<screenObjs[h].screenId>>, <<id>>>>)
       IN  /\ screenObjs' = [screenObjs EXCEPT ![h].widgets = unrefWidget(@, id)]
           /\ trace' = trace \o out
           /\ last' = Op("widget.delete", <<>>, w, 0, out, FALSE)
    /\ nCalls' = nCalls + 1
    /\ UNCHANGED <<sock, lcdprocConfig, screens, screenCnt, widgetObjs,
                   uncaught, nData>>

\* An element of an array as Array.prototype.join writes it
JoinText(v) == IF v.t = "undef" THEN "" ELSE ToText(v)

\* Widget.prototype.setParams on Widget object w: the parameters cached and
\* the trace of the call
setParams(w, values) ==
    [params |-> [def |-> TRUE, v |-> values],
     out |-> ClientWrite(<<<<"widget_set">>, <<screenObjs[widgetObjs[w].screen].screenId>>,
                           <<widgetObjs[w].widgetId>>,
                           [i \in 1..Len(values) |-> JoinText(values[i])]>>)]

\* this.params[i] (0-based) of Widget object w
ParamOf(w, i) ==
    IF i + 1 <= Len(widgetObjs[w].params.v) THEN widgetObjs[w].params.v[i + 1] ELSE Undef

\* StringWidget.prototype.set
stringSet(w, x, y, text) == setParams(w, <<x, y, Str(quoteString(ToText(text)))>>)

\* stringSetPos passing the cached text through set, which quotes it again
stringSetPosQuoting(w, x, y) ==
    IF ~widgetObjs[w].params.def
    THEN setParams(w, <<x, y, Num(0)>>)
    ELSE stringSet(w, x, y, ParamOf(w, 2))

\* StringWidget.prototype.setPos
stringSetPos(w, x, y) ==
    IF ~widgetObjs[w].params.def
    THEN setParams(w, <<x, y, Num(0)>>)
    ELSE setParams(w, <<x, y, ParamOf(w, 2)>>)

\* StringWidget.prototype.setText
stringSetText(w, text) ==
    IF ~widgetObjs[w].params.def
    THEN stringSet(w, Num(1), Num(1), text)
    ELSE stringSet(w, ParamOf(w, 0), ParamOf(w, 1), text)

\* A call of a widget method that ends in setParams
WidgetCall(op, w, args, set) ==
    /\ widgetObjs' = [widgetObjs EXCEPT ![w].params = set.params]
    /\ trace' = trace \o set.out
    /\ last' = Op(op, args, w, 0, set.out, FALSE)
    /\ nCalls' = nCalls + 1
    /\ UNCHANGED <<sock, lcdprocConfig, screens, screenCnt, screenObjs,
                   uncaught, nData>>

IsString(w) == w \in 1..Len(widgetObjs) /\ widgetObjs[w].cls = "StringWidget"

StringSet(w, x, y, text) ==
    /\ IsString(w)
    /\ WidgetCall("string.set", w, <<x, y, text>>, stringSet(w, x, y, text))

StringSetPos(w, x, y) ==
    /\ IsString(w)
    /\ WidgetCall("string.setPos", w, <<x, y>>, stringSetPos(w, x, y))

StringSetText(w, text) ==
    /\ IsString(w)
    /\ WidgetCall("string.setText", w, <<text>>, stringSetText(w, text))

\* Math.round of the fraction num / den (den > 0): halves go up
MathRound(num, den) == (2 * num + den) \div (2 * den)

\* (size.width - x + 1) * cellsize.width, the factor of percent in
\* HorizontalBarWidget.prototype.set
hbarSpace(x) ==
    LET width == lcdprocConfig.size.width
        cellwidth == lcdprocConfig.cellsize.width
        col == ToNumber(x)
    IN  IF width.t = "num" /\ cellwidth.t = "num" /\ col.t = "num"
        THEN Num((width.n - col.n + 1) * cellwidth.n)
        ELSE NaN

\* HorizontalBarWidget.prototype.set with the length cut off, not rounded
hbarSetTruncating(w, x, y, p) ==
    LET space == hbarSpace(x)
    IN  setParams(w, <<x, y, IF space.t = "num" THEN Num((space.n * p[1]) \div p[2])
                             ELSE NaN>>)

\* HorizontalBarWidget.prototype.set; percent is the fraction p[1] / p[2]
hbarSet(w, x, y, p) ==
    LET space == hbarSpace(x)
    IN  setParams(w, <<x, y, IF space.t = "num" THEN Num(MathRound(space.n * p[1], p[2]))
                             ELSE NaN>>)

\* HorizontalBarWidget.prototype.setPos, which is StringWidget.prototype.setPos
hbarSetPos(w, x, y) == stringSetPos(w, x, y)

\* HorizontalBarWidget.prototype.setValue
hbarSetValue(w, p) ==
    IF ~widgetObjs[w].params.def
    THEN hbarSet(w, Num(1), Num(1), p)
    ELSE hbarSet(w, ParamOf(w, 0), ParamOf(w, 1), p)

IsHBar(w) == w \in 1..Len(widgetObjs) /\ widgetObjs[w].cls = "HorizontalBarWidget"

HBarSet(w, x, y, p) ==
    /\ IsHBar(w)
    /\ WidgetCall("hbar.set", w, <<x, y, Num(p[1]), Num(p[2])>>, hbarSet(w, x, y, p))

HBarSetPos(w, x, y) ==
    /\ IsHBar(w)
    /\ WidgetCall("hbar.setPos", w, <<x, y>>, hbarSetPos(w, x, y))

HBarSetValue(w, p) ==
    /\ IsHBar(w)
    /\ WidgetCall("hbar.setValue", w, <<Num(p[1]), Num(p[2])>>, hbarSetValue(w, p))

----------------------------------------------------------------------------
(* The handshake: connect(), the socket's events, close(). *)

ServerA == "connect LCDproc 0.5.7 protocol 0.3 wid 20 hgt 4 cellwid 5 cellhgt 8\n"

ServerB == "connect LCDproc 0.5.8 protocol 0.4 wid 16 hgt 2 cellwid 6 cellhgt 9\n"

\* Data chunks of the handshake specification: the connect line of two
\* servers, and two message lines
HandshakeChunks == {ServerA, ServerB, "success\n", "listen " \o Name \o "_s0\n"}

Next ==
    \/ Connect
    \/ SocketConnect
    \/ nData < MaxData /\ \E buf \in HandshakeChunks : SocketData(buf)
    \/ SocketError
    \/ Close

Spec == Init /\ [][Next]_vars

HelloLine == Written("hello\n")

ClientSetLine == Written("client_set -name {" \o Name \o "}\n")

Ready == Emitted("ready", 0)

Count(seq, e) == Cardinality({i \in 1..Len(seq) : seq[i] = e})

\* C1: over the lifetime of one Client, whatever data chunks arrive (a chunk
\* beginning with connect more than once included), ready is emitted at most
\* once (the safety half of "exactly once").
C1_ReadyOnce == Count(trace, Ready) <= 1

\* C2: on transport-connect the client writes hello; every client_set line
\* on the wire has a hello before it; and every ready emitted has a
\* client_set -name {<name>} line written before it.
C2_HandshakeOrder ==
    /\ last.op = "on_connect" => last.out = <<HelloLine>>
    /\ \A i \in 1..Len(trace) :
          /\ trace[i] = ClientSetLine => \E j \in 1..(i - 1) : trace[j] = HelloLine
          /\ trace[i] = Ready => \E j \in 1..(i - 1) : trace[j] = ClientSetLine

C2_Witness == Count(trace, Ready) >= 1 /\ Count(trace, HelloLine) = 1

CapsA ==
    [version |-> Str("0.5.7"), protocol |-> Str("0.3"),
     size |-> [width |-> Num(20), height |-> Num(4)],
     cellsize |-> [width |-> Num(5), height |-> Num(8)]]

\* C3: the capabilities are all zero until a connect line is processed, the
\* step that processes server A's connect line sets them to A's values, and
\* once populated no step changes them.
C3_WriteOnce ==
    /\ [](Count(trace, Ready) = 0 => lcdprocConfig = InitConfig)
    /\ [][/\ (last'.op = "on_data" /\ last'.args = <<Str(ServerA)>>)
             => lcdprocConfig' = CapsA
          /\ lcdprocConfig # InitConfig => lcdprocConfig' = lcdprocConfig]_vars

----------------------------------------------------------------------------
(* Screens and the dispatch of the server's messages. *)

\* The ids of the screens constructed so far
AllocatedIds == {screenObjs[h].screenId : h \in 1..Len(screenObjs)}

\* Ids a server line may name: those of the screens constructed so far
\* (registered or deleted) and a name every object inherits
LineIds == AllocatedIds \cup {"constructor"}

\* Message lines of the server
Lines ==
    {"success", "huh? Invalid command"}
        \cup {"listen " \o id : id \in LineIds}
        \cup {"ignore " \o id : id \in LineIds}

ListenLines == {"listen " \o id : id \in AllocatedIds}

IgnoreLines == {"ignore " \o id : id \in AllocatedIds}

\* Data chunks of the dispatch specification: one message line, any message
\* line followed by the listen line of a screen, or the listen line of a
\* screen followed by the ignore line of a screen
DispatchChunks ==
    {l \o "\n" : l \in Lines}
        \cup {l1 \o "\n" \o l2 \o "\n" : l1 \in Lines, l2 \in ListenLines}
        \cup {l1 \o "\n" \o l2 \o "\n" : l1 \in ListenLines, l2 \in IgnoreLines}

NextDispatch ==
    \/ Connect
    \/ SocketConnect
    \/ nData < MaxChunks /\ \E buf \in DispatchChunks : SocketData(buf)
    \/ nCalls < MaxCalls /\ AddScreen(<<>>)
    \/ nCalls < MaxCalls /\ \E h \in 1..Len(screenObjs) : ScreenDelete(h)

SpecDispatch == Init /\ [][NextDispatch]_vars

ScreenIdOf(k) == Name \o "_s" \o ToString(k)

\* C4: whatever the interleaving of addScreen and Screen.delete, the k-th
\* addScreen call (from 0) yields the id <clientName>_s<k>, so the ids of all
\* screens ever made are pairwise distinct, deleted ones included.
C4_ScreenIds ==
    /\ \A h \in 1..Len(screenObjs) : screenObjs[h].screenId = ScreenIdOf(h - 1)
    /\ \A h1, h2 \in 1..Len(screenObjs) :
          h1 # h2 => screenObjs[h1].screenId # screenObjs[h2].screenId
    /\ last.op = "addScreen" => screenObjs[last.ret].screenId = ScreenIdOf(Len(screenObjs) - 1)

\* An addScreen after the deletion of an earlier screen
C4_Witness ==
    /\ last.op = "addScreen"
    /\ last.ret >= 2
    /\ \E h \in 1..(last.ret - 1) : ~HasOwn(screens, screenObjs[h].screenId)

\* The ids of the screens that were deleted
DeletedIds == {id \in AllocatedIds : ~HasOwn(screens, id)}

IsData(op) == op.op = "on_data"

\* C8: Screen.delete writes screen_del <id> and removes the id from the
\* registry; a deleted id stays out of the registry; and from then on a data
\* chunk that is the listen or ignore line of that id emits nothing, throws
\* nothing, writes nothing and changes no state, and no chunk emits an event
\* on a screen that is not registered.
C8_DeletedScreenSilent ==
    [][/\ last'.op = "screen.delete" =>
            /\ last'.out = <<Written("screen_del " \o screenObjs[last'.h].screenId \o "\n")>>
            /\ ~HasOwn(screens', screenObjs[last'.h].screenId)
       /\ \A id \in DeletedIds : ~HasOwn(screens', id)
       /\ \A id \in DeletedIds :
            (IsData(last') /\ last'.args[1].s \in {"listen " \o id \o "\n", "ignore " \o id \o "\n"})
               => /\ last'.out = <<>>
                  /\ ~last'.threw
                  /\ UNCHANGED <<sock, lcdprocConfig, screens, screenCnt, screenObjs,
                                 widgetObjs, trace, uncaught>>
       /\ IsData(last') =>
            \A i \in 1..Len(last'.out) :
                IsEmit(last'.out[i]) /\ last'.out[i].on > 0 =>
                    Lookup(screens, screenObjs[last'.out[i].on].screenId).obj = last'.out[i].on
      ]_vars

\* The listen line of a deleted screen was delivered while another screen
\* is registered
C8_Witness ==
    /\ IsData(last)
    /\ \E id \in DeletedIds : last.args[1].s = "listen " \o id \o "\n"
    /\ screens # {}

\* What the claim says one line emits
ExpectedOfLine(line) ==
    IF \E e \in screens : line = "listen " \o e.id
    THEN <<Emitted("shown", (CHOOSE e \in screens : line = "listen " \o e.id).obj)>>
    ELSE IF \E e \in screens : line = "ignore " \o e.id
         THEN <<Emitted("hidden", (CHOOSE e \in screens : line = "ignore " \o e.id).obj)>>
         ELSE <<>>

RECURSIVE ExpectedOfLines(_)
ExpectedOfLines(lines) ==
    IF lines = <<>> THEN <<>>
    ELSE ExpectedOfLine(Head(lines)) \o ExpectedOfLines(Tail(lines))

\* C9: a data chunk that is not the handshake is split on newline and its
\* lines are handled in order: the listen line of a registered screen emits
\* one shown on that screen, its ignore line one hidden, every other line
\* nothing; nothing is written and the registries do not change.
C9_DispatchInOrder ==
    [][(IsData(last') /\ ~StartsWith(Trim(last'.args[1].s), "connect")) =>
            /\ last'.out = ExpectedOfLines(Split(Trim(last'.args[1].s), "\n"))
            /\ UNCHANGED <<screens, screenObjs, widgetObjs>>
      ]_vars

----------------------------------------------------------------------------
(* Screens and their widgets. *)

\* Calls other than addScreen made so far
nOther == nCalls - Len(screenObjs)

NextWidgets ==
    \/ Len(screenObjs) < MaxScreens /\ AddScreen(<<>>)
    \/ nOther < MaxWidgetCalls /\ \E h \in 1..Len(screenObjs) : AddWidget(h, "string")
    \/ nOther < MaxWidgetCalls /\ \E h \in 1..Len(screenObjs) : AddString(h)
    \/ nOther < MaxWidgetCalls /\ \E h \in 1..Len(screenObjs) : AddHorizontalBar(h)
    \/ nOther < MaxWidgetCalls /\ \E h \in 1..Len(screenObjs) : AddVerticalBar(h)
    \/ nOther < MaxWidgetCalls /\ \E h \in 1..Len(screenObjs) : AddIcon(h)
    \/ nOther < MaxWidgetCalls /\ \E h \in 1..Len(screenObjs) : AddBigNumber(h)
    \/ nOther < MaxWidgetCalls /\ \E h \in 1..Len(screenObjs) : AddTitle(h)
    \/ nOther < MaxWidgetCalls /\ \E w \in 1..Len(widgetObjs) : WidgetDelete(w)

SpecWidgets == Init /\ [][NextWidgets]_vars

Factories ==
    {"addWidget", "addString", "addHorizontalBar", "addVerticalBar", "addIcon",
     "addBigNumber"}

IsTitle(w) == widgetObjs[w].cls = "TitleWidget"

\* The widgets made on Screen object h by a factory other than addTitle
\* before widget w was made
EarlierOn(h, w) ==
    {v \in 1..(w - 1) : widgetObjs[v].screen = h /\ ~IsTitle(v)}

\* C5: on every screen, each widget made by a factory other than addTitle
\* has the id <screenId>_w<N>, N the number of earlier such calls on that
\* screen (addTitle calls and deletions do not count), and the ids of all
\* such widgets, of one screen or of different screens, are pairwise distinct.
C5_WidgetIds ==
    /\ \A w \in 1..Len(widgetObjs) :
          ~IsTitle(w) =>
             widgetObjs[w].widgetId =
                screenObjs[widgetObjs[w].screen].screenId \o "_w"
                    \o ToString(Cardinality(EarlierOn(widgetObjs[w].screen, w)))
    /\ \A w1, w2 \in 1..Len(widgetObjs) :
          (w1 # w2 /\ ~IsTitle(w1) /\ ~IsTitle(w2))
             => widgetObjs[w1].widgetId # widgetObjs[w2].widgetId
    /\ last.op \in Factories => last.ret = Len(widgetObjs) /\ ~IsTitle(last.ret)

\* A factory call on a screen whose title was added before, while another
\* screen has a widget too
C5_Witness ==
    /\ last.op \in Factories
    /\ \E t \in 1..(last.ret - 1) : IsTitle(t) /\ widgetObjs[t].screen = last.h
    /\ \E v \in 1..Len(widgetObjs) : widgetObjs[v].screen # last.h

TitleAddLine(h) ==
    Written("widget_add " \o screenObjs[h].screenId \o " " \o titleId(h) \o " title\n")

TitleDelLine(h) ==
    Written("widget_del " \o screenObjs[h].screenId \o " " \o titleId(h) \o "\n")

\* C6: addTitle on a screen whose title widget is registered returns that
\* widget (its id is <screenId>_wTITLE), writes nothing and changes neither
\* the widget registry nor the widget counter; so between two widget_add of
\* a screen's title, a widget_del of it was written.
C6_AddTitleIdempotent ==
    /\ [][(last'.op = "addTitle" /\ HasOwn(screenObjs[last'.h].widgets, titleId(last'.h)))
            => /\ last'.ret = Lookup(screenObjs[last'.h].widgets, titleId(last'.h)).obj
               /\ widgetObjs[last'.ret].widgetId = titleId(last'.h)
               /\ last'.out = <<>>
               /\ UNCHANGED <<trace, screenObjs, widgetObjs>>]_vars
    /\ [](\A h \in 1..Len(screenObjs) : \A i, j \in 1..Len(trace) :
            (i < j /\ trace[i] = TitleAddLine(h) /\ trace[j] = TitleAddLine(h))
               => \E k \in (i + 1)..(j - 1) : trace[k] = TitleDelLine(h))

\* addTitle was called on a screen that had its title, and returned it
C6_Witness ==
    /\ last.op = "addTitle"
    /\ last.out = <<>>
    /\ IsTitle(last.ret)
    /\ Count(trace, TitleAddLine(last.h)) = 1

----------------------------------------------------------------------------
(* The order of the commands on the wire. *)

\* Screen configurations a caller passes: none, or one option
Configs == {<<>>, << <<"priority", "info">> >>}

NextWire ==
    \/ Len(screenObjs) < MaxScreens /\ \E config \in Configs : AddScreen(config)
    \/ nOther < MaxWidgetCalls
          /\ \E h \in 1..Len(screenObjs) : \E config \in Configs : ScreenSetConfig(h, config)
    \/ nOther < MaxWidgetCalls /\ \E h \in 1..Len(screenObjs) : ScreenDelete(h)
    \/ nOther < MaxWidgetCalls /\ \E h \in 1..Len(screenObjs) : AddString(h)
    \/ nOther < MaxWidgetCalls
          /\ \E w \in 1..Len(widgetObjs) : StringSet(w, Num(1), Num(2), Str("hi"))
    \/ nOther < MaxWidgetCalls /\ \E w \in 1..Len(widgetObjs) : WidgetDelete(w)

SpecWire == Init /\ [][NextWire]_vars

ScreenAddLine(h) == "screen_add " \o screenObjs[h].screenId \o "\n"

\* Whether line t is a screen_set, widget_add or widget_set naming screen id sid
NamesScreen(t, sid) ==
    \/ StartsWith(t, "screen_set " \o sid \o " ")
    \/ StartsWith(t, "widget_add " \o sid \o " ")
    \/ StartsWith(t, "widget_set " \o sid \o " ")

WidgetAddPrefix(w) ==
    "widget_add " \o screenObjs[widgetObjs[w].screen].screenId \o " "
        \o widgetObjs[w].widgetId \o " "

WidgetSetPrefix(w) ==
    "widget_set " \o screenObjs[widgetObjs[w].screen].screenId \o " "
        \o widgetObjs[w].widgetId \o " "

\* C7: every call's commands are appended to the wire in the call's step,
\* nothing written before is moved or dropped, and a call writes nothing but
\* commands; screen_add lines are in the order of the addScreen calls; for
\* each screen, screen_add <id> precedes every screen_set, widget_add and
\* widget_set naming the id; for each widget, its widget_add precedes every
\* widget_set naming it.
C7_WireOrder ==
    /\ [][/\ trace' = trace \o last'.out
          /\ \A i \in 1..Len(last'.out) : IsWrite(last'.out[i])
          /\ last'.op = "addScreen"
                => Head(last'.out).text
                      = "screen_add " \o screenObjs'[last'.ret].screenId \o "\n"]_vars
    /\ [](\A h1, h2 \in 1..Len(screenObjs) : \A i, j \in 1..Len(wire) :
            (h1 < h2 /\ wire[i].text = ScreenAddLine(h1) /\ wire[j].text = ScreenAddLine(h2))
               => i < j)
    /\ [](\A h \in 1..Len(screenObjs) : \A j \in 1..Len(wire) :
            NamesScreen(wire[j].text, screenObjs[h].screenId)
               => \E i \in 1..(j - 1) : wire[i].text = ScreenAddLine(h))
    /\ [](\A w \in 1..Len(widgetObjs) : \A j \in 1..Len(wire) :
            StartsWith(wire[j].text, WidgetSetPrefix(w))
               => \E i \in 1..(j - 1) : StartsWith(wire[i].text, WidgetAddPrefix(w)))

\* Two screens were added, the second with a configuration, and a widget of
\* the first was set
C7_Witness ==
    /\ Len(screenObjs) >= 2
    /\ \E j \in 1..Len(wire) : StartsWith(wire[j].text, "screen_set " \o screenObjs[2].screenId \o " ")
    /\ \E w \in 1..Len(widgetObjs) : \E j \in 1..Len(wire) :
          StartsWith(wire[j].text, WidgetSetPrefix(w))

----------------------------------------------------------------------------
(* The setters of the string widgets of one screen. *)

Positions == {<<Num(2), Num(1)>>, <<Num(3), Num(4)>>}

Texts == {Str("hi"), Str("a b")}

\* Calls of setters made so far
nSets == nCalls - Len(screenObjs) - Len(widgetObjs)

NextString ==
    \/ screenObjs = <<>> /\ AddScreen(<<>>)
    \/ Len(widgetObjs) < MaxStrings /\ \E h \in 1..Len(screenObjs) : AddString(h)
    \/ nSets < MaxSets
          /\ \E w \in 1..Len(widgetObjs) : \E p \in Positions : \E text \in Texts :
                StringSet(w, p[1], p[2], text)
    \/ nSets < MaxSets
          /\ \E w \in 1..Len(widgetObjs) : \E p \in Positions : StringSetPos(w, p[1], p[2])
    \/ nSets < MaxSets
          /\ \E w \in 1..Len(widgetObjs) : \E text \in Texts : StringSetText(w, text)

SpecString == Init /\ [][NextString]_vars

\* The widget_set line of widget w with the parameters values
WidgetSetLine(w, values) ==
    Written(WidgetSetPrefix(w)
              \o Join([i \in 1..Len(values) |-> ToText(values[i])], " ") \o "\n")

\* The last element of a non-empty set of positions
Last(S) == CHOOSE i \in S : \A j \in S : j <= i

\* The positions of the widget_set lines of widget w on the wire
SetsOf(w) == {i \in 1..Len(wire) : StartsWith(wire[i].text, WidgetSetPrefix(w))}

Braced(text) == Str("{" \o text.s \o "}")

\* C10: setPos(x,y) with no parameters cached sends and caches [x,y,0];
\* setText(t) with none cached sends and caches [1,1,{t}]; with parameters
\* cached, setPos(x,y) sends [x,y,<cached third value as it is>] and
\* setText(t) sends [<cached x>,<cached y>,{t}]; set(x,y,t) sends [x,y,{t}];
\* and the cached parameters are always those of the widget's last
\* widget_set line on the wire.
C10_StringPartialUpdates ==
    /\ [][LET w == last'.h
              old == widgetObjs[w].params
              new == widgetObjs'[w].params
              a == last'.args
          IN  /\ last'.op = "string.set" => new.v = <<a[1], a[2], Braced(a[3])>>
              /\ (last'.op = "string.setPos" /\ ~old.def) => new.v = <<a[1], a[2], Num(0)>>
              /\ (last'.op = "string.setPos" /\ old.def) => new.v = <<a[1], a[2], old.v[3]>>
              /\ (last'.op = "string.setText" /\ ~old.def)
                    => new.v = <<Num(1), Num(1), Braced(a[1])>>
              /\ (last'.op = "string.setText" /\ old.def)
                    => new.v = <<old.v[1], old.v[2], Braced(a[1])>>
              /\ last'.op \in {"string.set", "string.setPos", "string.setText"}
                    => new.def /\ last'.out = <<WidgetSetLine(w, new.v)>>]_vars
    /\ [](\A w \in 1..Len(widgetObjs) :
            IF widgetObjs[w].params.def
            THEN SetsOf(w) # {}
                   /\ wire[Last(SetsOf(w))] = WidgetSetLine(w, widgetObjs[w].params.v)
            ELSE SetsOf(w) = {})

\* setPos was called on a widget whose text was set before, and setText on
\* a widget that had only a position
C10_Witness ==
    /\ last.op = "string.setPos"
    /\ widgetObjs[last.h].params.v[3].t = "str"
    /\ Cardinality(SetsOf(last.h)) >= 3
    /\ \E i \in SetsOf(last.h) : wire[i] = WidgetSetLine(last.h, <<Num(3), Num(4), Num(0)>>)

----------------------------------------------------------------------------
(* The setters of one horizontal bar, before and after the handshake. *)

\* Calls of bar setters in one run
MaxBarSets == 2

BarPositions == {<<Num(1), Num(1)>>, <<Num(2), Num(3)>>}

\* percent arguments, as fractions: 0, 1/2 and 1
Percents == {<<0, 1>>, <<1, 2>>, <<1, 1>>}

\* The application makes its calls on an open connection; the server's
\* connect line arrives before, between or after them
NextBar ==
    \/ Connect
    \/ SocketConnect
    \/ nData < MaxChunks /\ \E buf \in {ServerA, ServerB} : SocketData(buf)
    \/ sock = "open" /\ screenObjs = <<>> /\ AddScreen(<<>>)
    \/ widgetObjs = <<>> /\ \E h \in 1..Len(screenObjs) : AddHorizontalBar(h)
    \/ nSets < MaxBarSets
          /\ \E w \in 1..Len(widgetObjs) : \E pos \in BarPositions : \E p \in Percents :
                HBarSet(w, pos[1], pos[2], p)
    \/ nSets < MaxBarSets
          /\ \E w \in 1..Len(widgetObjs) : \E pos \in BarPositions :
                HBarSetPos(w, pos[1], pos[2])
    \/ nSets < MaxBarSets
          /\ \E w \in 1..Len(widgetObjs) : \E p \in Percents : HBarSetValue(w, p)

SpecBar == Init /\ [][NextBar]_vars

\* Whether len is the integer nearest to a * p[1] / p[2], a half going up
IsRounded(len, a, p) ==
    /\ (2 * len - 1) * p[2] <= 2 * a * p[1]
    /\ 2 * a * p[1] < (2 * len + 1) * p[2]

\* (size.width - x + 1) * cellsize.width, in pixels
BarSpace(x) == (lcdprocConfig.size.width.n - x.n + 1) * lcdprocConfig.cellsize.width.n

\* Whether values is [x, y, length] with length the rounded fraction p of
\* the space right of column x
IsBarParams(values, x, y, p) ==
    /\ Len(values) = 3
    /\ values[1] = x
    /\ values[2] = y
    /\ values[3].t = "num"
    /\ IsRounded(values[3].n, BarSpace(x), p)

\* C11: set(x,y,percent) sends and caches [x,y,length] with length =
\* round((size.width - x + 1) * cellsize.width * percent) for the
\* capabilities at the time of the call; setValue(percent) does what
\* set(<cached x>,<cached y>,percent) does, or set(1,1,percent) with no
\* parameters cached; with size.width 20 and cellsize.width 5, set(1,1,0)
\* sends length 0 and set(1,1,1) sends length 100.
C11_HBarLength ==
    /\ [][LET w == last'.h
              old == widgetObjs[w].params
              new == widgetObjs'[w].params
              a == last'.args
          IN  /\ last'.op = "hbar.set"
                    => IsBarParams(new.v, a[1], a[2], <<a[3].n, a[4].n>>)
              /\ (last'.op = "hbar.setValue" /\ ~old.def)
                    => IsBarParams(new.v, Num(1), Num(1), <<a[1].n, a[2].n>>)
              /\ (last'.op = "hbar.setValue" /\ old.def)
                    => IsBarParams(new.v, old.v[1], old.v[2], <<a[1].n, a[2].n>>)
              /\ last'.op \in {"hbar.set", "hbar.setValue"}
                    => new.def /\ last'.out = <<WidgetSetLine(w, new.v)>>]_vars
    /\ []((/\ last.op = "hbar.set"
           /\ lcdprocConfig.size.width = Num(20)
           /\ lcdprocConfig.cellsize.width = Num(5)
           /\ last.args[1] = Num(1)
           /\ last.args[2] = Num(1))
            => LET sent == widgetObjs[last.h].params.v
               IN  /\ <<last.args[3], last.args[4]>> = <<Num(0), Num(1)>>
                         => sent = <<Num(1), Num(1), Num(0)>>
                   /\ <<last.args[3], last.args[4]>> = <<Num(1), Num(1)>>
                         => sent = <<Num(1), Num(1), Num(100)>>)

\* After the handshake with the 20-column server, a bar set at column 2 got
\* the value 1/2 by setValue: 95 pixels of space, 47.5 rounded to 48
C11_Witness ==
    /\ last.op = "hbar.setValue"
    /\ lcdprocConfig.size.width = Num(20)
    /\ Cardinality(SetsOf(last.h)) = 2
    /\ widgetObjs[last.h].params.v = <<Num(2), Num(3), Num(48)>>
    /\ wire[Len(wire)] = WidgetSetLine(last.h, <<Num(2), Num(3), Num(48)>>)

----------------------------------------------------------------------------
(* The configuration of two screens. *)

\* Calls of setConfig in one run
MaxSetConfigs == 2

\* Configuration objects a caller passes: none, one option, two options
ConfigObjects ==
    {<<>>,
     << <<"priority", "info">> >>,
     << <<"heartbeat", "on">> >>,
     << <<"heartbeat", "off">>, <<"priority", "alert">> >>}

NextConfig ==
    \/ Len(screenObjs) < MaxScreens /\ \E config \in ConfigObjects : AddScreen(config)
    \/ nOther < MaxSetConfigs
          /\ \E h \in 1..Len(screenObjs) : \E config \in ConfigObjects :
                ScreenSetConfig(h, config)

SpecConfig == Init /\ [][NextConfig]_vars

\* The keys of a configuration object
KeysOf(obj) == {obj[i][1] : i \in 1..Len(obj)}

\* The value of key k in a configuration object that has it
ValueOf(obj, k) == obj[CHOOSE i \in 1..Len(obj) : obj[i][1] = k][2]

\* -key value -key value ... for the entries of obj in their order
DashTokens(obj) ==
    [i \in 1..(2 * Len(obj)) |->
        IF i % 2 = 1 THEN "-" \o obj[(i + 1) \div 2][1] ELSE obj[i \div 2][2]]

\* The screen_set line of Screen object h for the configuration obj
ScreenSetLine(h, obj) ==
    Written("screen_set " \o screenObjs[h].screenId \o " " \o Join(DashTokens(obj), " ") \o "\n")

C16_EmptyConfigNoOp ==
    [][/\ (last'.op = "screen.setConfig" /\ last'.args = <<>>)
             => last'.out = <<>> /\ trace' = trace /\ screenObjs' = screenObjs
       /\ last'.op = "addScreen"
             => LET h == last'.ret
                    id == screenObjs'[h].screenId
                    add == Written("screen_add " \o id \o "\n")
                IN  /\ Lookup(screens', id) = [found |-> "own", obj |-> h]
                    /\ trace' = trace \o last'.out
                    /\ last'.args = <<>>
                          => last'.out = <<add>> /\ screenObjs'[h].config = <<>>
                    /\ \A config \in ConfigObjects \ {<<>>} :
                          last'.args = ConfigArgs(config)
                             => /\ last'.out
                                     = <<add, Written("screen_set " \o id \o " "
                                                \o Join(DashTokens(config), " ") \o "\n")>>
                                /\ screenObjs'[h].config = config]_vars

\* setConfig with an empty configuration was called on the only screen,
\* which was added with two options: its two lines are all that was written
C16_Witness ==
    /\ last.op = "screen.setConfig"
    /\ last.args = <<>>
    /\ Len(screenObjs) = 1
    /\ Len(screenObjs[1].config) = 2
    /\ Len(trace) = 2
    /\ wire[1].text = ScreenAddLine(1)
    /\ wire[2] = ScreenSetLine(1, screenObjs[1].config)

----------------------------------------------------------------------------
(* One screen with one string widget over the life of the connection:
   connect(), the socket's events, an error of the transport, close(). *)

\* Calls on the client, its screen and its widget in one run
MaxLifeCalls == 3

LifeConfig == << <<"priority", "info">> >>

NextLife ==
    \/ Connect
    \/ SocketConnect
    \/ nData < MaxChunks /\ SocketData(ServerA)
    \/ SocketError
    \/ Close
    \/ nCalls < MaxLifeCalls /\ screenObjs = <<>> /\ AddScreen(LifeConfig)
    \/ nCalls < MaxLifeCalls /\ \E h \in 1..Len(screenObjs) : ScreenSetConfig(h, LifeConfig)
    \/ nCalls < MaxLifeCalls /\ \E h \in 1..Len(screenObjs) : ScreenDelete(h)
    \/ nCalls < MaxLifeCalls /\ widgetObjs = <<>> /\ \E h \in 1..Len(screenObjs) : AddString(h)
    \/ nCalls < MaxLifeCalls
          /\ \E w \in 1..Len(widgetObjs) : StringSet(w, Num(1), Num(2), Str("hi"))
    \/ nCalls < MaxLifeCalls /\ \E w \in 1..Len(widgetObjs) : WidgetDelete(w)

SpecLife == Init /\ [][NextLife]_vars

\* C13: after an error of the transport nothing more is written to it: a
\* later addScreen, setConfig, widget set or delete writes no command; and
\* the error is reported to the caller by an event.
C13_NoCommandAfterError ==
    [][/\ sock = "destroyed" => Len(wire') = Len(wire)
       /\ last'.op = "on_error" => \E i \in 1..Len(last'.out) : IsEmit(last'.out[i])]_vars

\* C17: a call of close() leaves the registry of screens, the screen
\* counter, every Screen object (its configuration, its registry of widgets,
\* its widget counter), every Widget object (its cached parameters) and the
\* capabilities as they were, and writes and emits nothing.
C17_CloseFrame ==
    [][last'.op = "close"
          => /\ screens' = screens
             /\ screenCnt' = screenCnt
             /\ screenObjs' = screenObjs
             /\ widgetObjs' = widgetObjs
             /\ lcdprocConfig' = lcdprocConfig
             /\ trace' = trace]_vars

\* close() was called on an open connection after the handshake, with a
\* screen registered and parameters cached in its widget
C17_Witness ==
    /\ last.op = "close"
    /\ sock = "ended"
    /\ lcdprocConfig.size.width = Num(20)
    /\ \E e \in screens : screenObjs[e.obj].widgets # {} /\ screenObjs[e.obj].config # <<>>
    /\ \E w \in 1..Len(widgetObjs) : widgetObjs[w].params.def

----------------------------------------------------------------------------
(* The connection after close(). *)

\* C14: close() is final: the step that follows a call of close() on a
\* connection writes no further hello or client_set and emits no further
\* ready, whatever call or inbound chunk it is.
C14_ClosedIsTerminal ==
    [][(last.op = "close" /\ sock = "ended")
          => /\ Count(trace', HelloLine) = Count(trace, HelloLine)
             /\ Count(trace', ClientSetLine) = Count(trace, ClientSetLine)
             /\ Count(trace', Ready) = Count(trace, Ready)]_vars

----------------------------------------------------------------------------
(* Handles of deleted screens and widgets. *)

Commands ==
    {"screen_add", "screen_set", "screen_del", "widget_add", "widget_set", "widget_del"}

\* Whether line t is a command whose first argument is the screen id sid
NamesScreenId(t, sid) ==
    \E cmd \in Commands :
        t = cmd \o " " \o sid \o "\n" \/ StartsWith(t, cmd \o " " \o sid \o " ")

\* Whether line t is the command cmd on widget w
NamesWidget(t, cmd, w) ==
    LET ids == screenObjs[widgetObjs[w].screen].screenId \o " " \o widgetObjs[w].widgetId
    IN  t = cmd \o " " \o ids \o "\n" \/ StartsWith(t, cmd \o " " \o ids \o " ")

\* C15: a call on a deleted Screen or Widget writes nothing: no line after
\* screen_del <id> names <id>, and no widget_set or widget_del follows the
\* widget_del of the same widget.
C15_StaleHandlesSilent ==
    /\ \A h \in 1..Len(screenObjs) : \A i, j \in 1..Len(wire) :
          (i < j /\ wire[i].text = "screen_del " \o screenObjs[h].screenId \o "\n")
             => ~NamesScreenId(wire[j].text, screenObjs[h].screenId)
    /\ \A w \in 1..Len(widgetObjs) : \A i, j \in 1..Len(wire) :
          (i < j /\ NamesWidget(wire[i].text, "widget_del", w))
             => /\ ~NamesWidget(wire[j].text, "widget_set", w)
                /\ ~NamesWidget(wire[j].text, "widget_del", w)

----------------------------------------------------------------------------
(* The widgets of one screen and the handles the caller keeps of them. *)

\* Calls of addTitle, addString and delete in one run
MaxTitleCalls == 4

NextTitle ==
    \/ screenObjs = <<>> /\ AddScreen(<<>>)
    \/ nOther < MaxTitleCalls /\ \E h \in 1..Len(screenObjs) : AddTitle(h)
    \/ nOther < MaxTitleCalls /\ \E h \in 1..Len(screenObjs) : AddString(h)
    \/ nOther < MaxTitleCalls /\ \E w \in 1..Len(widgetObjs) : WidgetDelete(w)

SpecTitle == Init /\ [][NextTitle]_vars

\* Whether Widget object w is in the registry of its screen
Registered(w) == \E e \in screenObjs[widgetObjs[w].screen].widgets : e.obj = w

\* C18: a Widget object leaves the registry of its screen only in a call of
\* delete() on that same object.
C18_RegistryPerInstance ==
    [][\A w \in 1..Len(widgetObjs) :
          (Registered(w) /\ ~Registered(w)')
             => last'.op = "widget.delete" /\ last'.h = w]_vars

----------------------------------------------------------------------------
(* The length of a horizontal bar after setPos. *)

\* The percent argument of a call of set or setValue, as a fraction
PercentOf(call) ==
    IF call.op = "hbar.set" THEN <<call.args[3].n, call.args[4].n>>
    ELSE <<call.args[1].n, call.args[2].n>>

\* C19: after the handshake, setPos(x2,y2) on a bar whose value p was given
\* by the call before it (set or setValue) leaves the bar with the
\* parameters of set(x2,y2,p): the length is round((size.width - x2 + 1) *
\* cellsize.width * p).
C19_HBarLengthFollowsPos ==
    [][(/\ last'.op = "hbar.setPos"
        /\ last.op \in {"hbar.set", "hbar.setValue"}
        /\ last.h = last'.h
        /\ lcdprocConfig.size.width.n > 0)
          => IsBarParams(widgetObjs'[last'.h].params.v, last'.args[1], last'.args[2],
                         PercentOf(last))]_vars

----------------------------------------------------------------------------
(* The server's byte stream cut into data events in different ways. *)

\* Data events in one run
MaxStreamChunks == 2

ListenLine == "listen " \o Name \o "_s0\n"

\* Data chunks: whole lines, the connect line with a message line behind it,
\* two message lines, and the two halves of a message line
StreamChunks ==
    {ServerA, ListenLine, "success\n",
     ServerA \o ListenLine,
     "success\n" \o ListenLine,
     "listen " \o Name, "_s0\n"}

NextStream ==
    \/ Connect
    \/ SocketConnect
    \/ screenObjs = <<>> /\ AddScreen(<<>>)
    \/ nData < MaxStreamChunks /\ \E buf \in StreamChunks : SocketData(buf)

SpecStream == Init /\ [][NextStream]_vars

EndsWithNewline(s) == Len(s) > 0 /\ Char(s, Len(s)) = "\n"

\* The lines of a stream of newline-terminated lines
StreamLines(s) == Split(Substring(s, 0, Len(s) - 1), "\n")

\* The events emitted for a line that arrives as a data event of its own
LineEvents(line) == SelectSeq(OnData(line \o "\n").out, IsEmit)

RECURSIVE PerLine(_)
\* The events emitted when every line arrives as a data event of its own
PerLine(lines) ==
    IF lines = <<>> THEN <<>>
    ELSE LineEvents(Head(lines)) \o PerLine(Tail(lines))

\* C20: the events emitted do not depend on how the stream is cut: a data
\* event that carries whole lines emits what the same lines emit when each
\* arrives as an event of its own, and two data events that carry a line cut
\* in two emit together what the whole line emits.
C20_ChunkingIndependent ==
    [][/\ (/\ IsData(last')
           /\ EndsWithNewline(last'.args[1].s)
           /\ ~(IsData(last) /\ ~EndsWithNewline(last.args[1].s)))
             => SelectSeq(last'.out, IsEmit) = PerLine(StreamLines(last'.args[1].s))
       /\ (/\ IsData(last)
           /\ IsData(last')
           /\ ~EndsWithNewline(last.args[1].s)
           /\ last.args[1].s \o last'.args[1].s = ListenLine)
             => SelectSeq(last.out, IsEmit) \o SelectSeq(last'.out, IsEmit)
                   = PerLine(StreamLines(last.args[1].s \o last'.args[1].s))]_vars

====
